---- MODULE Spec2Model ----
(***************************************************************************)
(* Model of parallel-csv (processor.go): NewProcessor, parseHeader and Run *)
(* with its worker goroutines, the buffered channel `blocks` and the       *)
(* WaitGroup `wg`, and the backing arrays of Run's buffer.                  *)
(*                                                                         *)
(* Bytes are one-character strings; a Go string or []byte is a sequence    *)
(* of them.  Go indices are 0-based, TLA+ sequences 1-based: b[:k] is      *)
(* SubSeq(b, 1, k) and b[k:] is SubSeq(b, k + 1, Len(b)).                  *)
(***************************************************************************)
EXTENDS Integers, Sequences, FiniteSets, TLC

\* ---- bounds of the model ----
MaxLen == 4          \* longest input stream, in bytes
MaxWorkers == 2      \* largest Config.NumberOfWorkers
MaxBytes == 3        \* largest Config.BytesPerWorker
MaxRuns == 2         \* number of Run calls made on one Processor

\* ---- program constants ----
LineBreak == "\n"
EmptyFileError == "file is empty"
HeaderNotFoundError == "header not found"
InvalidReaderError == "input reader should be correctly initialized"

\* Outcomes of io.ReadFull / of Run that are not named constants of the package.
NoError == "nil"
EOF == "EOF"
ErrUnexpectedEOF == "unexpected EOF"
ReadError == "read error"

Alphabet == {"a", ",", LineBreak}
Separators == {",", "a"}
Streams == UNION {[1..n -> Alphabet] : n \in 0..MaxLen}

Configs ==
  [NumberOfWorkers : -1..MaxWorkers,
   HasHeader : {FALSE},
   Separator : {","},
   BytesPerWorker : -1..MaxBytes]
  \cup
  [NumberOfWorkers : -1..MaxWorkers,
   HasHeader : {TRUE},
   Separator : Separators,
   BytesPerWorker : -1..MaxBytes]

Workers == 1..(MaxRuns * MaxWorkers)

VARIABLES
  readerNil,   \* the io.Reader handed to NewProcessor is nil
  stream,      \* the bytes the io.Reader yields
  failing,     \* after these bytes the io.Reader returns an error other than
               \* io.EOF (on every further read) instead of io.EOF
  config,      \* *Config
  pstate,      \* "new", "created" (NewProcessor returned p) or "panicked"
  panicValue,  \* value of the panic that ended NewProcessor or Run
  cursor,      \* read position of p.reader in stream
  header,      \* p.header
  blocks,      \* p.blocks: the buffered channel's queue
  closed,      \* p.blocks has been closed
  wg,          \* p.wg's counter
  pc,          \* position of the goroutine that calls Run
  i,           \* loop variable of the worker start-up loop
  tot,         \* Run's tot
  buffer,      \* Run's buffer (its visible part buffer[:len])
  bufStart,    \* history: stream offset the bytes of buffer were read from
  heap,        \* the backing arrays made by Run, in order of allocation
  bufArr,      \* the backing array buffer is a slice of (index in heap)
  dropped,     \* history: a read has overwritten a full buffer that held no
               \* line break and of which nothing was sent
  runs,        \* number of Run calls made so far
  results,     \* values returned by the Run calls that have returned
  wstate,      \* per worker goroutine: "unborn", "waiting", "holding", "done"
  wdata,       \* per worker goroutine: the workerData it holds
  submitted,   \* history: workerData sent on p.blocks, in order
  delivered    \* history: delivered[k] lists the rows of each job invocation
               \* made for the k-th workerData sent on p.blocks

vars == <<readerNil, stream, failing, config, pstate, panicValue,
          cursor, header, blocks, closed, wg, pc, i, tot, buffer, bufStart,
          heap, bufArr, dropped, runs, results, wstate, wdata, submitted, delivered>>

inputVars == <<readerNil, stream, failing, config>>
procVars == <<pstate, panicValue, header>>
chanVars == <<blocks, closed>>
workerVars == <<wstate, wdata>>

\* ---- pure functions ----

Min(a, b) == IF a < b THEN a ELSE b

\* bytes.LastIndexByte(b, c): 0-based index of the last c in b, or -1.
LastIndexByte(b, c) ==
  IF \E k \in 1..Len(b) : b[k] = c
  THEN (CHOOSE k \in 1..Len(b) : b[k] = c /\ \A m \in (k+1)..Len(b) : b[m] # c) - 1
  ELSE -1

\* 0-based index of the first c in b, or -1.
IndexByte(b, c) ==
  IF \E k \in 1..Len(b) : b[k] = c
  THEN (CHOOSE k \in 1..Len(b) : b[k] = c /\ \A m \in 1..(k-1) : b[m] # c) - 1
  ELSE -1

\* strings.Split(s, sep) for a one-byte sep: the segments of s between the
\* occurrences of sep; always at least one segment.
RECURSIVE Split(_, _)
Split(s, sep) ==
  LET k == IndexByte(s, sep) IN
  IF k = -1 THEN <<s>>
  ELSE <<SubSeq(s, 1, k)>> \o Split(SubSeq(s, k + 2, Len(s)), sep)

\* Number of bytes the reader yields before io.EOF or its error.
Limit == Len(stream)

\* io.ReadFull(p.reader, buf) with len(buf) = want, at read position cur:
\* the number of bytes read and the error.
ReadFull(cur, want) ==
  LET n == Min(want, Limit - cur) IN
  [n |-> n,
   err |-> IF n >= want THEN NoError
           ELSE IF failing THEN ReadError
           ELSE IF n = 0 THEN EOF
           ELSE ErrUnexpectedEOF]

\* A zero byte of a freshly made array.
ZeroByte == "0"

\* make([]byte, 0, n): the backing array, n zero bytes.
MakeArray(n) == [k \in 1..n |-> ZeroByte]

\* copy of bytes to the front of array arr (append to arr[:0], a read into
\* arr[:cap]): the bytes behind them stay.
WriteFront(arr, bytes) == bytes \o SubSeq(arr, Len(bytes) + 1, Len(arr))

\* workerData.  rows is the slice heap[arr][0:len]; the field rows of the model
\* is history (the bytes of that slice when it was sent), like start (the
\* stream offset they were read from) and seq (the number of the send).
NoData == [job |-> 0, header |-> <<>>, arr |-> 0, len |-> 0, rows |-> <<>>,
           start |-> 0, seq |-> 0]

\* ---- initial state: the arguments of NewProcessor ----

Init ==
  /\ readerNil \in BOOLEAN
  /\ stream \in (IF readerNil THEN {<<>>} ELSE Streams)
  /\ failing \in (IF readerNil THEN {FALSE} ELSE BOOLEAN)
  /\ config \in Configs
  /\ pstate = "new"
  /\ panicValue = NoError
  /\ cursor = 0
  /\ header = <<>>
  /\ blocks = <<>>
  /\ closed = FALSE
  /\ wg = 0
  /\ pc = "idle"
  /\ i = 0
  /\ tot = 0
  /\ buffer = <<>>
  /\ bufStart = 0
  /\ heap = <<>>
  /\ bufArr = 0
  /\ dropped = FALSE
  /\ runs = 0
  /\ results = <<>>
  /\ wstate = [w \in Workers |-> "unborn"]
  /\ wdata = [w \in Workers |-> NoData]
  /\ submitted = <<>>
  /\ delivered = [k \in 1..MaxLen |-> <<>>]

\* ---- NewProcessor / parseHeader ----

\* A parseHeader that ignores ReadString's error: the line ends where the
\* reader stopped.
HeaderBreakIgnoreErr ==
  IF IndexByte(SubSeq(stream, 1, Limit), LineBreak) = -1
  THEN Limit
  ELSE IndexByte(SubSeq(stream, 1, Limit), LineBreak)

\* p.reader.ReadString('\n'): 0-based index of the first line break the reader
\* yields from the stream start, or -1 when it reaches io.EOF or its error first.
HeaderBreak == IndexByte(SubSeq(stream, 1, Limit), LineBreak)

\* A parseHeader that keeps the line break in the last field: Split(line, ...).
HeaderOfKeepBreak(k) == Split(SubSeq(stream, 1, k + 1), config.Separator)

\* strings.Split(line[:len(line)-1], Separator), line ending at 0-based index k.
HeaderOf(k) == Split(SubSeq(stream, 1, k), config.Separator)

NewProcessor ==
  /\ pstate = "new"
  /\ IF readerNil
     THEN /\ pstate' = "panicked"
          /\ panicValue' = InvalidReaderError
          /\ UNCHANGED <<header, cursor>>
     ELSE IF config.NumberOfWorkers < 0
     THEN /\ pstate' = "panicked"
          /\ panicValue' = "makechan: size out of range"
          /\ UNCHANGED <<header, cursor>>
     ELSE IF config.HasHeader /\ HeaderBreak = -1
     THEN /\ pstate' = "panicked"
          /\ panicValue' = HeaderNotFoundError
          /\ cursor' = Limit
          /\ UNCHANGED header
     ELSE IF config.HasHeader
     THEN /\ pstate' = "created"
          /\ header' = HeaderOf(HeaderBreak)
          /\ cursor' = HeaderBreak + 1
          /\ UNCHANGED panicValue
     ELSE /\ pstate' = "created"
          /\ UNCHANGED <<panicValue, header, cursor>>
  /\ UNCHANGED <<inputVars, chanVars, wg, pc, i, tot, buffer, bufStart, heap,
                 bufArr, dropped, runs, results, workerVars, submitted,
                 delivered>>

\* ---- Run: the calling goroutine ----

\* Run(job) is entered: p.wg.Add(NumberOfWorkers), i := 0.
RunCall ==
  /\ pstate = "created"
  /\ pc \in {"idle", "returned"}
  /\ runs < MaxRuns
  /\ runs' = runs + 1
  /\ wg' = wg + config.NumberOfWorkers
  /\ i' = 0
  /\ pc' = "spawn"
  /\ UNCHANGED <<inputVars, procVars, cursor, chanVars, tot, buffer, bufStart,
                 heap, bufArr, dropped, results, workerVars, submitted,
                 delivered>>

\* The goroutine started by iteration i of the run in progress.
WorkerOf(run, k) == (run - 1) * config.NumberOfWorkers + k + 1

\* A start-up loop that runs once too often: i <= NumberOfWorkers.
MoreWorkersInclusive(k) == k <= config.NumberOfWorkers

\* The condition of the start-up loop: i < p.config.NumberOfWorkers.
MoreWorkers(k) == k < config.NumberOfWorkers

\* One iteration of the start-up loop: go func(...){...}(p.blocks, p.wg).
StartWorker ==
  /\ pc = "spawn"
  /\ MoreWorkers(i)
  /\ wstate' = [wstate EXCEPT ![WorkerOf(runs, i)] = "waiting"]
  /\ i' = i + 1
  /\ UNCHANGED <<inputVars, procVars, cursor, chanVars, wg, pc, tot, buffer,
                 bufStart, heap, bufArr, dropped, runs, results, wdata,
                 submitted, delivered>>

\* tot := 0; buffer := make([]byte, 0, BytesPerWorker).
AllocBuffer ==
  /\ pc = "spawn"
  /\ ~MoreWorkers(i)
  /\ tot' = 0
  /\ IF config.BytesPerWorker < 0
     THEN /\ pc' = "panicked"
          /\ panicValue' = "makeslice: cap out of range"
          /\ UNCHANGED <<buffer, bufStart, heap, bufArr, dropped>>
     ELSE /\ pc' = "read"
          /\ buffer' = <<>>
          /\ bufStart' = cursor
          /\ heap' = Append(heap, MakeArray(config.BytesPerWorker))
          /\ bufArr' = Len(heap) + 1
          /\ UNCHANGED <<panicValue, dropped>>
  /\ UNCHANGED <<inputVars, pstate, header, cursor, chanVars, wg, i, runs,
                 results, workerVars, submitted, delivered>>

\* buffer after io.ReadFull(p.reader, buffer[:cap(buffer)]) and buffer = buffer[:n]:
\* the n bytes read lie at buffer[0:n], whatever buffer held before.
FillBuffer(old, data) == data

\* n, err := io.ReadFull(...); tot += n; buffer = buffer[:n]; the err branches.
ReadChunk ==
  /\ pc = "read"
  /\ LET r == ReadFull(cursor, config.BytesPerWorker)
         t == tot + r.n
     IN
     /\ tot' = t
     /\ buffer' = FillBuffer(buffer, SubSeq(stream, cursor + 1, cursor + r.n))
     /\ heap' = [heap EXCEPT ![bufArr] = WriteFront(@, buffer')]
     /\ bufStart' = cursor
     /\ UNCHANGED bufArr
     /\ dropped' = (dropped \/ (/\ config.BytesPerWorker >= 1
                               /\ Len(buffer) = config.BytesPerWorker
                               /\ LastIndexByte(buffer, LineBreak) = -1))
     /\ cursor' = cursor + r.n
     /\ IF r.err = EOF /\ t = 0
        THEN /\ pc' = "returned"
             /\ results' = Append(results, EmptyFileError)
        ELSE IF r.err = EOF
        THEN /\ pc' = "close"
             /\ UNCHANGED results
        ELSE IF r.err \notin {NoError, ErrUnexpectedEOF}
        THEN /\ pc' = "returned"
             /\ results' = Append(results, r.err)
        ELSE /\ pc' = "emit"
             /\ UNCHANGED results
  /\ UNCHANGED <<inputVars, procVars, chanVars, wg, i, runs, workerVars,
                 submitted, delivered>>

\* A channel made one element too large.
ChanCapPlusOne == config.NumberOfWorkers + 1

\* Capacity of p.blocks: make(chan workerData, config.NumberOfWorkers).
ChanCap == config.NumberOfWorkers

\* A chunk that takes its line break along: buffer[:lastIndex+1].
ChunkLenWithBreak(lastIndex) == lastIndex + 1

\* Length of the chunk: rows is buffer[:lastIndex].
ChunkLen(lastIndex) == lastIndex

\* A Run that keeps the array: buffer = append(buffer[:0], remain...).
RemainArrayReused(cur, fresh) == cur

\* The array the remainder is copied to: the one just made, not the one the
\* chunk is a slice of.
RemainArray(cur, fresh) == fresh

\* lastIndex != -1: p.blocks <- workerData{job, p.header, buffer[:lastIndex]}, then
\* remain := buffer[lastIndex:]; buffer = append(make(...), remain...).
\* The send blocks while the channel holds NumberOfWorkers elements (with
\* NumberOfWorkers = 0 the channel is unbuffered and no goroutine receives).
Submit ==
  /\ pc = "emit"
  /\ LET lastIndex == LastIndexByte(buffer, LineBreak) IN
     /\ lastIndex # -1
     /\ IF closed
        THEN /\ pc' = "panicked"
             /\ panicValue' = "send on closed channel"
             /\ UNCHANGED <<blocks, submitted, buffer, bufStart, heap, bufArr,
                            dropped>>
        ELSE /\ Len(blocks) < ChanCap
             /\ LET d == [job |-> runs, header |-> header,
                          arr |-> bufArr, len |-> ChunkLen(lastIndex),
                          rows |-> SubSeq(buffer, 1, ChunkLen(lastIndex)),
                          start |-> bufStart, seq |-> Len(submitted) + 1]
                IN /\ blocks' = Append(blocks, d)
                   /\ submitted' = Append(submitted, d)
             /\ LET remain == SubSeq(buffer, lastIndex + 1, Len(buffer))
                    target == RemainArray(bufArr, Len(heap) + 1)
                IN /\ buffer' = remain
                   /\ heap' = [Append(heap, MakeArray(config.BytesPerWorker))
                                 EXCEPT ![target] = WriteFront(@, remain)]
                   /\ bufArr' = target
             /\ bufStart' = bufStart + lastIndex
             /\ pc' = "read"
             /\ UNCHANGED <<panicValue, dropped>>
  /\ UNCHANGED <<inputVars, pstate, header, cursor, closed, wg, i, tot, runs,
                 results, workerVars, delivered>>

\* lastIndex == -1: nothing is sent and buffer is kept for the next read.
NoLineBreak ==
  /\ pc = "emit"
  /\ LastIndexByte(buffer, LineBreak) = -1
  /\ pc' = "read"
  /\ UNCHANGED <<inputVars, procVars, cursor, chanVars, wg, i, tot, buffer,
                 bufStart, heap, bufArr, dropped, runs, results, workerVars,
                 submitted, delivered>>

\* close(p.blocks).
CloseBlocks ==
  /\ pc = "close"
  /\ IF closed
     THEN /\ pc' = "panicked"
          /\ panicValue' = "close of closed channel"
          /\ UNCHANGED closed
     ELSE /\ closed' = TRUE
          /\ pc' = "wait"
          /\ UNCHANGED panicValue
  /\ UNCHANGED <<inputVars, pstate, header, cursor, blocks, wg, i, tot,
                 buffer, bufStart, heap, bufArr, dropped, runs, results,
                 workerVars, submitted, delivered>>

\* A Run that does not wait for the workers.
WaitDoneEarly(counter) == TRUE

\* p.wg.Wait() returns when the counter is zero.
WaitDone(counter) == counter = 0

\* p.wg.Wait(); return nil.
WaitReturn ==
  /\ pc = "wait"
  /\ WaitDone(wg)
  /\ pc' = "returned"
  /\ results' = Append(results, NoError)
  /\ UNCHANGED <<inputVars, procVars, cursor, chanVars, wg, i, tot, buffer,
                 bufStart, heap, bufArr, dropped, runs, workerVars, submitted,
                 delivered>>

\* ---- Run: the worker goroutines ----

\* A receive that leaves the element in the channel.
DequeuePeek(q) == [item |-> Head(q), rest |-> q]

\* A receive that takes the newest element.
DequeueLast(q) == [item |-> q[Len(q)], rest |-> SubSeq(q, 1, Len(q) - 1)]

\* A receive on the channel: the oldest element, and the queue without it.
Dequeue(q) == [item |-> Head(q), rest |-> Tail(q)]

\* for data := range blocks: a receive.
Receive(w) ==
  /\ wstate[w] = "waiting"
  /\ blocks # <<>>
  /\ wdata' = [wdata EXCEPT ![w] = Dequeue(blocks).item]
  /\ blocks' = Dequeue(blocks).rest
  /\ wstate' = [wstate EXCEPT ![w] = "holding"]
  /\ UNCHANGED <<inputVars, procVars, cursor, closed, wg, pc, i, tot, buffer,
                 bufStart, heap, bufArr, dropped, runs, results, submitted,
                 delivered>>

\* data.rows as the worker reads it: the bytes now in heap[arr][0:len].
Rows(d) == SubSeq(heap[d.arr], 1, d.len)

\* lines := strings.Split(string(data.rows), LineBreak)
Lines(d) == Split(Rows(d), LineBreak)

\* j(data.header, lines): the job is called and returns.
InvokeJob(w) ==
  /\ wstate[w] = "holding"
  /\ delivered' = [delivered EXCEPT ![wdata[w].seq] =
                                   Append(@, [header |-> wdata[w].header,
                                              rows |-> Lines(wdata[w])])]
  /\ wdata' = [wdata EXCEPT ![w] = NoData]
  /\ wstate' = [wstate EXCEPT ![w] = "waiting"]
  /\ UNCHANGED <<inputVars, procVars, cursor, chanVars, wg, pc, i, tot,
                 buffer, bufStart, heap, bufArr, dropped, runs, results,
                 submitted>>

\* A worker without its deferred wg.Done().
WgDoneMissing(counter) == counter

\* wg.Done(): the counter after it.
WgDone(counter) == counter - 1

\* range blocks ends (channel closed and empty); defer wg.Done().
WorkerExit(w) ==
  /\ wstate[w] = "waiting"
  /\ blocks = <<>>
  /\ closed
  /\ wstate' = [wstate EXCEPT ![w] = "done"]
  /\ wg' = WgDone(wg)
  /\ UNCHANGED <<inputVars, procVars, cursor, chanVars, pc, i, tot, buffer,
                 bufStart, heap, bufArr, dropped, runs, results, wdata,
                 submitted, delivered>>

Producer ==
  \/ StartWorker
  \/ AllocBuffer
  \/ ReadChunk
  \/ Submit
  \/ NoLineBreak
  \/ CloseBlocks
  \/ WaitReturn

Next ==
  \/ NewProcessor
  \/ RunCall
  \/ StartWorker
  \/ AllocBuffer
  \/ ReadChunk
  \/ Submit
  \/ NoLineBreak
  \/ CloseBlocks
  \/ WaitReturn
  \/ \E w \in Workers : Receive(w)
  \/ \E w \in Workers : InvokeJob(w)
  \/ \E w \in Workers : WorkerExit(w)

Spec == Init /\ [][Next]_vars

\* A step of some worker goroutine.
WorkerStep == \E w \in Workers : Receive(w) \/ InvokeJob(w) \/ WorkerExit(w)

\* The inputs of the termination property: a non-nil reader that ends in io.EOF,
\* NumberOfWorkers >= 1 and BytesPerWorker >= 1.  Whether Run returns does not
\* depend on which bytes other than line breaks the stream holds, so the
\* streams are those over "a" and the line break.
FairInit ==
  /\ Init
  /\ ~readerNil
  /\ ~failing
  /\ config.NumberOfWorkers >= 1
  /\ config.BytesPerWorker >= 1
  /\ \A n \in 1..Len(stream) : stream[n] \in {"a", LineBreak}

\* The Go scheduler runs every runnable goroutine: the goroutine inside Run
\* takes its next step when it stays possible, and so does some worker while a
\* worker can step.  Calling NewProcessor or Run is up to the caller and not
\* forced.
FairSpec ==
  /\ FairInit
  /\ [][Next]_vars
  /\ WF_vars(Producer)
  /\ WF_vars(WorkerStep)

TypeOK ==
  /\ pstate \in {"new", "created", "panicked"}
  /\ pc \in {"idle", "spawn", "read", "emit", "close", "wait", "returned", "panicked"}
  /\ Len(blocks) <= MaxWorkers
  /\ cursor \in 0..Len(stream)

\* ---- vocabulary of the properties ----

ValidConfig == config.NumberOfWorkers >= 1 /\ config.BytesPerWorker >= 1

\* The r-th Run call has returned v.
Returned(r, v) == r \in 1..Len(results) /\ results[r] = v

\* The goroutines started by the r-th Run call.
WorkersOfRun(r) == {WorkerOf(r, k) : k \in 0..(config.NumberOfWorkers - 1)}

\* Length of the first line of the stream (without its line break), when the
\* stream has a line break.
HasLineBreak(s) == \E n \in 1..Len(s) : s[n] = LineBreak
FirstLineLen(s) == CHOOSE n \in 0..Len(s) :
                     /\ n < Len(s)
                     /\ s[n + 1] = LineBreak
                     /\ \A m \in 1..n : s[m] # LineBreak

\* Offset of the first data byte: after the header line in header mode.
DataStart == IF config.HasHeader THEN FirstLineLen(stream) + 1 ELSE 0
Data == SubSeq(stream, DataStart + 1, Len(stream))

\* Number of line-break-delimited lines of s; a non-empty final segment
\* without a line break counts as a line.
LineCount(s) ==
  Cardinality({n \in 1..Len(s) : s[n] = LineBreak})
  + (IF s # <<>> /\ s[Len(s)] # LineBreak THEN 1 ELSE 0)

RECURSIVE SumLen(_)
SumLen(q) == IF q = <<>> THEN 0 ELSE Len(Head(q).rows) + SumLen(Tail(q))

RECURSIVE RowsUpTo(_)
RowsUpTo(k) == IF k = 0 THEN 0 ELSE SumLen(delivered[k]) + RowsUpTo(k - 1)

\* Rows passed to the job over all its invocations.
TotalRows == RowsUpTo(MaxLen)

\* The submitted chunks in order, each followed by the line break it was cut at.
RECURSIVE Rejoined(_)
Rejoined(q) ==
  IF q = <<>> THEN <<>> ELSE Head(q).rows \o <<LineBreak>> \o Rejoined(Tail(q))

\* Chunk d begins where a line of the stream begins, and ends where one ends.
StartsAtLine(d) == d.start = DataStart \/ (d.start > 0 /\ stream[d.start] = LineBreak)
EndsAtLine(d) ==
  LET e == d.start + Len(d.rows) IN
  e = Len(stream) \/ (e < Len(stream) /\ stream[e + 1] = LineBreak)

\* ---- C1 ----
\* C1: header mode disabled, non-empty stream, NumberOfWorkers >= 1 and
\* BytesPerWorker >= 1: when Run has returned nil, the number of rows passed to
\* the job over all invocations equals the number of lines of the stream.
C1_AllLinesDelivered ==
  (/\ ~config.HasHeader
   /\ stream # <<>>
   /\ ValidConfig
   /\ Returned(1, NoError))
  => TotalRows = LineCount(stream)

\* ---- C2 ----
\* C2: every chunk sent on the channel starts at the beginning of a line of the
\* stream and ends at the end of one, and, once Run has returned nil, the chunks
\* rejoined in order at their line breaks reproduce the stream after the header
\* (a last chunk may end at end-of-stream instead of at a line break).
C2_ChunksAreWholeLines ==
  /\ \A k \in 1..Len(submitted) :
       StartsAtLine(submitted[k]) /\ EndsAtLine(submitted[k])
  /\ (ValidConfig /\ Returned(1, NoError))
     => Rejoined(submitted) \in {Data, Data \o <<LineBreak>>}

\* ---- C3 ----
\* C3: from the moment a Run call has returned nil on, the channel is closed and
\* empty, every worker that call started has returned, no worker holds a chunk
\* (no job invocation is in progress or can start), and the job has been invoked
\* for every chunk that was sent.
C3_NilMeansAllDone ==
  \A r \in 1..Len(results) :
    results[r] = NoError
    => /\ closed
       /\ blocks = <<>>
       /\ \A w \in WorkersOfRun(r) : wstate[w] = "done"
       /\ \A w \in Workers : wstate[w] # "holding"
       /\ \A k \in 1..Len(submitted) : Len(delivered[k]) >= 1

\* A run with two workers that sent at least two chunks has returned nil.
C3_Witness ==
  /\ Returned(1, NoError)
  /\ config.NumberOfWorkers >= 2
  /\ Len(submitted) >= 2

\* ---- C4 ----
\* C4: when a Run call has returned a read error other than end-of-stream, the
\* channel has been closed and every worker that call started has terminated: none
\* is waiting on the channel or holding a chunk.
C4_ReadErrorReleasesWorkers ==
  \A r \in 1..Len(results) :
    (ValidConfig /\ results[r] = ReadError)
    => /\ closed
       /\ \A w \in WorkersOfRun(r) : wstate[w] = "done"

RECURSIVE Join(_, _)
Join(h, sep) ==
  IF Len(h) = 1 THEN h[1] ELSE h[1] \o <<sep>> \o Join(Tail(h), sep)

\* C6: header mode enabled and a first line that ends in a line break: the
\* header is the first line without its line break cut at the separators (no
\* field holds a separator, and the fields joined by the separator give the
\* line back), NewProcessor leaves the read cursor just after the header line,
\* and every chunk sent by Run holds exactly the stream bytes at its offsets,
\* all of them after the header line.
C6_HeaderParsedAndSkipped ==
  (pstate = "created" /\ config.HasHeader)
  => /\ HasLineBreak(stream)
     /\ Len(header) >= 1
     /\ \A f \in 1..Len(header) :
          \A n \in 1..Len(header[f]) : header[f][n] # config.Separator
     /\ Join(header, config.Separator) = SubSeq(stream, 1, FirstLineLen(stream))
     /\ runs = 0 => cursor = FirstLineLen(stream) + 1
     /\ cursor >= FirstLineLen(stream) + 1
     /\ \A k \in 1..Len(submitted) :
          /\ submitted[k].start >= FirstLineLen(stream) + 1
          /\ submitted[k].rows =
               SubSeq(stream, submitted[k].start + 1,
                      submitted[k].start + Len(submitted[k].rows))
          /\ submitted[k].header = header

\* A header of two fields has been parsed and a row delivered to the job.
C6_Witness ==
  /\ pstate = "created"
  /\ config.HasHeader
  /\ Len(header) >= 2
  /\ \E k \in 1..Len(submitted) :
       /\ submitted[k].rows # <<>>
       /\ Len(delivered[k]) >= 1

\* ---- C7 ----
\* C7: the first Run call returns EmptyFileError only when the stream holds no
\* byte at all; a stream with a header line and nothing after it does not make
\* Run return EmptyFileError.
C7_EmptyFileOnlyForEmptyStream ==
  (ValidConfig /\ Returned(1, EmptyFileError)) => stream = <<>>

\* ---- C8 ----
\* C8: for an empty stream and header mode disabled (worker count and chunk size
\* >= 1), NewProcessor returns a Processor, and Run sends no chunk, invokes no
\* job and returns nothing but EmptyFileError; with header mode enabled, a
\* stream without a line break makes NewProcessor panic with
\* HeaderNotFoundError and return no Processor.
C8_EmptyStream ==
  /\ (/\ ~readerNil
      /\ ~failing
      /\ stream = <<>>
      /\ ~config.HasHeader
      /\ ValidConfig)
     => /\ pstate # "panicked"
        /\ pc # "panicked"
        /\ submitted = <<>>
        /\ TotalRows = 0
        /\ pc \notin {"emit", "close", "wait"}
        /\ \A r \in 1..Len(results) : results[r] = EmptyFileError
  /\ (/\ ~readerNil
      /\ config.HasHeader
      /\ config.NumberOfWorkers >= 0
      /\ ~HasLineBreak(stream))
     => /\ pstate # "created"
        /\ pstate = "panicked" => panicValue = HeaderNotFoundError

\* Run has returned EmptyFileError on an empty stream with two workers started.
C8_Witness ==
  /\ ~readerNil
  /\ stream = <<>>
  /\ ~config.HasHeader
  /\ config.NumberOfWorkers = 2
  /\ Returned(1, EmptyFileError)

\* ---- C9 ----
\* C9: once a Run call on a Processor has returned, a further Run call starts
\* no additional worker: the only workers ever started are the
\* NumberOfWorkers of the first call.
C9_SecondRunNotCarriedOut ==
  \A w \in Workers : w > config.NumberOfWorkers => wstate[w] = "unborn"

\* ---- C10 ----
\* C10: every Processor returned by NewProcessor has NumberOfWorkers >= 1 and
\* BytesPerWorker >= 1.
C10_ConfigValidated ==
  pstate = "created" => ValidConfig

\* ---- C11 ----
\* b begins with a.
IsPrefix(a, b) == Len(a) <= Len(b) /\ SubSeq(b, 1, Len(a)) = a

\* C11: the bytes carried forward after a send (the line break the chunk was cut
\* at and the bytes behind it), which are the buffer when the next read starts,
\* are still the front of the buffer after that read: the read puts its bytes
\* behind them.
C11_CarryForward ==
  [][(/\ pc = "read"
      /\ ValidConfig
      /\ Len(buffer) >= 2
      /\ buffer[1] = LineBreak)
     => IsPrefix(buffer, buffer')]_vars

\* ---- C12 ----
\* C12: for a stream whose last byte is not a line break, once the channel is
\* closed a chunk that ends at end-of-stream has been sent, and once Run has
\* returned nil that chunk has been delivered to the job.
C12_FinalChunkSent ==
  (/\ pstate = "created"
   /\ ValidConfig
   /\ ~failing
   /\ stream # <<>>
   /\ stream[Len(stream)] # LineBreak
   /\ closed)
  => \E k \in 1..Len(submitted) :
       /\ submitted[k].start + Len(submitted[k].rows) = Len(stream)
       /\ Returned(1, NoError) => Len(delivered[k]) >= 1

\* ---- C13 ----
\* C13: a Run call that has overwritten a full buffer without line break, none
\* of whose bytes it had sent, does not return nil.
C13_NoSilentDrop ==
  (ValidConfig /\ dropped) => \A r \in 1..Len(results) : results[r] # NoError

\* ---- C14 ----
\* The chunks now in the channel or held by a worker.
InFlight ==
  {blocks[n] : n \in 1..Len(blocks)}
  \cup {wdata[w] : w \in {v \in Workers : wstate[v] = "holding"}}

\* C14: every chunk in the channel or held by a worker is one that was sent, and
\* every chunk sent holds the bytes of the stream from its offset up to a line
\* boundary: the stream byte right after the chunk is a line break, or the chunk
\* ends at end-of-stream.
C14_ChunksEndOnLineBoundary ==
  /\ \A d \in InFlight :
       d.seq \in 1..Len(submitted) /\ d = submitted[d.seq]
  /\ \A k \in 1..Len(submitted) :
       /\ submitted[k].rows =
            SubSeq(stream, submitted[k].start + 1,
                   submitted[k].start + Len(submitted[k].rows))
       /\ EndsAtLine(submitted[k])

\* A chunk with bytes waits in the channel while a worker holds another.
C14_Witness ==
  /\ \E n \in 1..Len(blocks) : blocks[n].rows # <<>>
  /\ \E w \in Workers : wstate[w] = "holding"

\* ---- C15 ----
\* Where the k-th chunk sent is: in the channel, in a worker's hands, or passed
\* to the job.
InQueue(k) == Cardinality({n \in 1..Len(blocks) : blocks[n].seq = k})
Holders(k) ==
  Cardinality({w \in Workers : wstate[w] = "holding" /\ wdata[w].seq = k})
Invocations(k) == Len(delivered[k])

\* C15: every chunk sent is in exactly one place: still in the channel, or held
\* by exactly one worker, or passed to the job exactly once; the job is invoked
\* for nothing else.
C15_EachChunkOnce ==
  /\ \A k \in 1..Len(submitted) : InQueue(k) + Holders(k) + Invocations(k) = 1
  /\ \A k \in (Len(submitted) + 1)..MaxLen : Invocations(k) = 0

\* Two workers hold two different chunks at the same time, a third chunk has
\* been passed to the job.
C15_Witness ==
  /\ \E v, w \in Workers :
       /\ v # w
       /\ wstate[v] = "holding"
       /\ wstate[w] = "holding"
  /\ \E k \in 1..Len(submitted) : Invocations(k) = 1

\* ---- C16 ----
\* The producer stands at its send with a chunk to send.
AtSend == pc = "emit" /\ LastIndexByte(buffer, LineBreak) # -1

\* C16 as stated: while the channel holds NumberOfWorkers chunks, the producer
\* neither sends a chunk nor reads from the stream.
C16_IdleWhileFull ==
  [][(ValidConfig /\ Len(blocks) = config.NumberOfWorkers)
     => (submitted' = submitted /\ cursor' = cursor)]_vars

\* C16, amended: the channel never holds more than NumberOfWorkers chunks;
\* while it holds that many no chunk is sent; and the producer that has reached
\* its send with the channel full stays there and reads nothing.
C16_Backpressure ==
  /\ [](pstate = "created" => Len(blocks) <= config.NumberOfWorkers)
  /\ [][(pstate = "created" /\ Len(blocks) >= config.NumberOfWorkers)
        => submitted' = submitted]_vars
  /\ [][(AtSend /\ ~closed /\ Len(blocks) >= config.NumberOfWorkers)
        => (pc' = pc /\ cursor' = cursor /\ buffer' = buffer)]_vars

\* The producer stands at its send with two chunks in a channel of two.
C16_Witness ==
  /\ config.NumberOfWorkers = 2
  /\ Len(blocks) = 2
  /\ AtSend

\* ---- C17 ----
\* The k-th chunk sent has left the channel.
Taken(k) == Holders(k) + Invocations(k) >= 1

\* C17: the chunks sent have strictly increasing stream offsets; the channel
\* holds them in the order sent and every chunk a worker has taken was sent
\* before every chunk still in the channel; the rows of a job invocation are
\* the lines of its chunk in order (joined by line breaks they give the chunk).
C17_StreamOrder ==
  /\ \A k \in 1..(Len(submitted) - 1) :
       submitted[k].start < submitted[k + 1].start
  /\ \A n \in 1..(Len(blocks) - 1) : blocks[n].seq < blocks[n + 1].seq
  /\ \A k \in 1..Len(submitted) :
       Taken(k) => \A n \in 1..Len(blocks) : k < blocks[n].seq
  /\ \A k \in 1..Len(submitted) :
       \A j \in 1..Len(delivered[k]) :
         Join(delivered[k][j].rows, LineBreak) = submitted[k].rows

\* A chunk of two lines has been passed to the job and another was sent.
C17_Witness ==
  /\ Len(submitted) >= 2
  /\ \E k \in 1..Len(submitted) :
       /\ Invocations(k) = 1
       /\ Len(delivered[k][1].rows) >= 2

\* ---- C18 ----
\* The goroutines started so far.
Started == {w \in Workers : wstate[w] # "unborn"}

\* C18: when the producer of a Run call is past the start-up loop, that call
\* has started exactly NumberOfWorkers workers (with those of earlier calls:
\* runs * NumberOfWorkers); a worker is started only by the start-up loop, in a
\* step that neither reads nor sends; a worker terminates only from waiting on
\* a channel that is closed and empty.
C18_WorkersStartedFirst ==
  /\ []((pstate = "created" /\ pc \in {"read", "emit", "close", "wait", "returned"})
        => Started = 1..(runs * config.NumberOfWorkers))
  /\ [][\A w \in Workers :
          (wstate[w] = "unborn" /\ wstate'[w] # "unborn")
          => /\ pc = "spawn"
             /\ pc' = "spawn"
             /\ wstate'[w] = "waiting"
             /\ Cardinality(Started') = Cardinality(Started) + 1
             /\ cursor' = cursor
             /\ submitted' = submitted]_vars
  /\ [][\A w \in Workers :
          (wstate[w] # "done" /\ wstate'[w] = "done")
          => (wstate[w] = "waiting" /\ closed /\ blocks = <<>>)]_vars

\* Of the two workers of the first Run call, one has terminated while the
\* other still holds a chunk.
C18_Witness ==
  /\ runs = 1
  /\ config.NumberOfWorkers = 2
  /\ \E v, w \in Workers : wstate[v] = "done" /\ wstate[w] = "holding"

\* ---- C19 ----
\* C19: the bytes of every chunk in the channel or held by a worker, as they
\* now stand in memory, are the bytes it had when it was sent, and the rows of
\* every job invocation are those bytes split at the line breaks.
C19_ChunkImmutable ==
  /\ \A d \in InFlight : Rows(d) = d.rows
  /\ \A k \in 1..Len(submitted) :
       \A j \in 1..Len(delivered[k]) :
         delivered[k][j].rows = Split(submitted[k].rows, LineBreak)

\* A chunk with bytes is in flight while the producer has copied the
\* remainder and read again into its buffer.
C19_Witness ==
  /\ pc = "emit"
  /\ buffer # <<>>
  /\ \E d \in InFlight : d.rows # <<>> /\ d.arr # bufArr

\* ---- C20 ----
\* C20: when the first Run call has returned EmptyFileError (empty stream,
\* header mode disabled), the workers it started have all terminated.
C20_EmptyFileReleasesWorkers ==
  (/\ ValidConfig
   /\ ~config.HasHeader
   /\ stream = <<>>
   /\ Returned(1, EmptyFileError))
  => \A w \in WorkersOfRun(1) : wstate[w] = "done"
====
